---- MODULE Spec2Model ----
(***************************************************************************)
(* The upload lifecycle of jackalope-backend: the upload routes            *)
(* (routes/upload.ts), the record store (services/uploadDb.ts), the object *)
(* store client (services/s3Upload.ts) and the background promotion        *)
(* (services/fileProcessing.ts).                                           *)
(*                                                                         *)
(* Every `await` of a handler is a point where other handlers run, so a    *)
(* handler is one action per awaited step.  A record-store update and the  *)
(* synchronous code that follows its await (the reply, the scheduling of   *)
(* the promotion) are one step.  updated_at and a part's uploadedAt are    *)
(* write stamps nothing reads; they are not part of the state.             *)
(***************************************************************************)
EXTENDS Integers, Sequences, FiniteSets, TLC

\* ------------------------------------------------------------- bounds
NumUploads == 1
NumCalls == 2
NumPromos == 1
MaxTime == 1

Uploads == 1..NumUploads
Calls == 1..NumCalls
Promos == 1..NumPromos
Times == 0..MaxTime
PartNumbers == {1, 2}
\* the acknowledgements a client sends: part 1 can be reported again with
\* another etag and size
Parts == {[partNumber |-> 1, etag |-> "e1", size |-> 3],
          [partNumber |-> 1, etag |-> "e2", size |-> 4],
          [partNumber |-> 2, etag |-> "e1", size |-> 3]}
TotalSizes == {1000, 10000000}
\* the sizes around the multipart threshold, and the least valid one
InitiateSizes == {1, 1000, 5 * 1024 * 1024 - 1, 5 * 1024 * 1024,
                  5 * 1024 * 1024 + 1, 10000000}
\* the progress a caller gives updateProcessingStatus: none, or a number
ProgressArgs == {<<>>} \cup {<<n>> : n \in {-5, 0, 37, 100, 101, 250}}
ProcessingStatuses == {"pending", "processing", "processed", "failed"}
\* the part lists a client sends with complete
PartLists == {<<>>, <<2, 1>>}

\* the authenticated users; every request of the specifications that have one
\* user is Alice's
Users == {"alice", "bob"}
Alice == "alice"

\* ---------------------------------------------------------- constants
MULTIPART_THRESHOLD == 5 * 1024 * 1024
NoTime == -1
NoKey == 0
NoPartNumber == 0
\* the partNumber a client sends with /url, if any
PartNumberArgs == {NoPartNumber} \cup PartNumbers

VARIABLES
  rec,        \* the uploads table: rec[u] is the row with upload_id u
  mpu,        \* object store: state of the multipart upload of u
  tempObj,    \* object store: the temp bucket holds an object under u's key
  finalObj,   \* object store: the final bucket holds an object under u's key
  calls,      \* the request handlers in flight
  promo,      \* the scheduled promotion callbacks
  now,        \* the clock
  reply,      \* what the last step sent out, if anything: the response to a
              \* client, or the result a promotion returned to its callback
  abortOk     \* history: an abort of u, active when marked, was answered with success

vars == <<rec, mpu, tempObj, finalObj, calls, promo, now, reply, abortOk>>

store == <<mpu, tempObj, finalObj>>

\* ------------------------------------------------------------ helpers
S3Key(u) == u

NoPart == [partNumber |-> 0, etag |-> "", size |-> 0]
IdleCall == [op |-> "none", pc |-> "idle", u |-> 0, parts |-> <<>>,
             part |-> NoPart, snap |-> <<>>]
IdlePromo == [pc |-> "idle", u |-> 0, err |-> ""]
NoReply == [op |-> "none", u |-> 0, code |-> 0, error |-> ""]

Reply(op, u, code, error) == [op |-> op, u |-> u, code |-> code, error |-> error]

\* the ProcessingResult processUpload returns to the scheduled callback, which
\* logs it; error is the message of the error caught, named by the step that threw
ProcessingResult(u, success, error) ==
  [op |-> "processUpload", u |-> u, code |-> 0, error |-> error, success |-> success]

\* the response to an acknowledgement, { success: true }; replaced is history,
\* not part of the response: the write replaced the entry of a part reported before
AckReply(u, replaced) ==
  [op |-> "complete-part", u |-> u, code |-> 200, error |-> "", replaced |-> replaced]

\* a request takes the lowest free handler slot (the slots are interchangeable)
FreeCall(c) == calls[c].pc = "idle" /\ \A d \in Calls : d < c => calls[d].pc # "idle"
FreePromo(p) == promo[p].pc = "idle" /\ \A q \in DOMAIN promo : q < p => promo[q].pc # "idle"

Exists(u) == u \in DOMAIN rec

Found_AnyUser(u, userId) == u \in DOMAIN rec

\* UploadDbService.getUploadRecord and getUploadStatus: the row with the
\* upload_id that belongs to the user, if there is one
Found(u, userId) == u \in DOMAIN rec /\ rec[u].user_id = userId

Init ==
  /\ rec = <<>>
  /\ mpu = [u \in Uploads |-> "none"]
  /\ tempObj = [u \in Uploads |-> FALSE]
  /\ finalObj = [u \in Uploads |-> FALSE]
  /\ calls = [c \in Calls |-> IdleCall]
  /\ promo = [p \in Promos |-> IdlePromo]
  /\ now = 0
  /\ reply = NoReply
  /\ abortOk = [u \in Uploads |-> FALSE]

\* ---------------------------------------------------- the record store
NewRecord_Processed(userId, uploadType, totalSize) ==
  [ user_id |-> userId,
    upload_type |-> uploadType,
    total_size |-> totalSize,
    status |-> "active",
    processing_status |-> "processed",
    processing_progress |-> 100,
    parts |-> <<>>,
    created_at |-> now,
    completed_at |-> NoTime,
    final_s3_key |-> NoKey,
    final_bucket |-> "null",
    thumbnail_s3_key |-> "null",
    thumbnail_url |-> "null",
    thumbnail_cloudinary_url |-> "null" ]

\* UploadDbService.createUploadRecord: the inserted row
NewRecord(userId, uploadType, totalSize) ==
  [ user_id |-> userId,
    upload_type |-> uploadType,
    total_size |-> totalSize,
    status |-> "active",
    processing_status |-> "pending",
    processing_progress |-> 0,
    parts |-> <<>>,
    created_at |-> now,
    completed_at |-> NoTime,
    final_s3_key |-> NoKey,
    final_bucket |-> "null",
    thumbnail_s3_key |-> "null",
    thumbnail_url |-> "null",
    thumbnail_cloudinary_url |-> "null" ]

\* UploadDbService.updateUploadPart, lines 121-137: replace the entry with the
\* same partNumber, or push
FindIndex(parts, partNumber) ==
  LET hits == {i \in 1..Len(parts) : parts[i].partNumber = partNumber}
  IN IF hits = {} THEN 0 ELSE CHOOSE i \in hits : \A j \in hits : i <= j

UpsertPart_Push(parts, newPart) == Append(parts, newPart)

UpsertPart(parts, newPart) ==
  LET existingPartIndex == FindIndex(parts, newPart.partNumber)
  IN IF existingPartIndex >= 1
     THEN [parts EXCEPT ![existingPartIndex] = newPart]
     ELSE Append(parts, newPart)

\* UploadDbService.markUploadCompleted: the update is not conditional on the
\* row's status.  An argument left undefined (NoKey, "undefined") is not part
\* of the update sent to the database, and its column keeps its value.
MarkUploadCompleted(r, finalS3Key, finalBucket) ==
  [r EXCEPT !.status = "completed",
            !.completed_at = now,
            !.final_s3_key = IF finalS3Key = NoKey THEN @ ELSE finalS3Key,
            !.final_bucket = IF finalBucket = "undefined" THEN @ ELSE finalBucket]

\* UploadDbService.markUploadAborted: not conditional on the row's status
MarkUploadAborted(r) == [r EXCEPT !.status = "aborted"]

MarkUploadFailed_Noop(r) == r

\* UploadDbService.markUploadFailed: not conditional on the row's status
MarkUploadFailed(r) == [r EXCEPT !.status = "failed"]

\* UploadDbService.cleanupStaleUploads: one UPDATE of the rows that are active
\* and were created before the cutoff
CleanupStaleUploads(olderThan) ==
  LET cutoff == now - olderThan
  IN /\ rec' = [u \in DOMAIN rec |->
                  IF rec[u].status = "active" /\ rec[u].created_at < cutoff
                  THEN [rec[u] EXCEPT !.status = "failed"]
                  ELSE rec[u]]
     /\ reply' = NoReply
     /\ UNCHANGED <<store, calls, promo, now, abortOk>>

StaleUploads_Inclusive(olderThan) ==
  {u \in DOMAIN rec : rec[u].status = "active" /\ rec[u].created_at <= now - olderThan}

\* the rows the UPDATE of cleanupStaleUploads matches:
\* .eq('status', 'active').lt('created_at', cutoff)
StaleUploads(olderThan) ==
  {u \in DOMAIN rec : rec[u].status = "active" /\ rec[u].created_at < now - olderThan}

\* what a call of cleanupStaleUploads returns: data?.length || 0
CleanupReply(count) ==
  [op |-> "cleanupStaleUploads", u |-> 0, code |-> 0, error |-> "", count |-> count]

\* UploadDbService.cleanupStaleUploads with its result: the UPDATE, then the
\* number of the rows it returned
CleanupStaleUploadsCall(olderThan) ==
  /\ rec' = [u \in DOMAIN rec |->
               IF u \in StaleUploads(olderThan)
               THEN [rec[u] EXCEPT !.status = "failed"]
               ELSE rec[u]]
  /\ reply' = CleanupReply(Cardinality(StaleUploads(olderThan)))
  /\ UNCHANGED <<store, calls, promo, now, abortOk>>

\* the time passes
Tick ==
  /\ now < MaxTime
  /\ now' = now + 1
  /\ reply' = NoReply
     /\ UNCHANGED <<rec, store, calls, promo, abortOk>>

Initiate_StrictThreshold(totalSize, s3ok) ==
  LET u == Len(rec) + 1
      uploadType == IF totalSize > MULTIPART_THRESHOLD THEN "multipart" ELSE "single"
  IN /\ u \in Uploads
     /\ IF uploadType = "multipart" /\ ~s3ok
        THEN \* initiateMultipartUpload throws: no record is created
             /\ reply' = Reply("initiate", 0, 500, "Failed to initiate upload")
             /\ UNCHANGED <<rec, mpu>>
        ELSE /\ mpu' = IF uploadType = "multipart" THEN [mpu EXCEPT ![u] = "open"] ELSE mpu
             /\ rec' = Append(rec, NewRecord(Alice, uploadType, totalSize))
             /\ reply' = Reply("initiate", u, 200, "")
     /\ UNCHANGED <<tempObj, finalObj, calls, promo, now, abortOk>>

\* ------------------------------------------- the schema of POST /initiate
\* a totalSize of any magnitude: <<hi, lo>> is hi * 2^30 + lo with lo in
\* 0 .. 2^30 - 1, so that 5 GiB and what lies beyond it can be written
GiB == 1024 * 1024 * 1024
Wide(hi, lo) == <<hi, lo>>
WideLeq(a, b) == a[1] < b[1] \/ (a[1] = b[1] /\ a[2] <= b[2])

\* the totalSizes of the requests: -1, 0, 1, two usual sizes, 5 GiB and
\* 5 GiB + 1
SizeArgs ==
  {Wide(-1, GiB - 1), Wide(0, 0), Wide(0, 1), Wide(0, 1000), Wide(0, 10000000),
   Wide(5, 0), Wide(5, 1)}

\* the contentTypes of the requests, character by character
ContentTypeArgs ==
  {<<"i", "m", "a", "g", "e", "/", "p", "n", "g">>,
   <<"v", "i", "d", "e", "o", "/", "m", "p", "4">>,
   <<"i", "m", "a", "g", "e", "/">>,
   <<"I", "m", "a", "g", "e", "/", "p", "n", "g">>,
   <<"x", "i", "m", "a", "g", "e", "/", "p", "n", "g">>,
   <<"i", "m", "a", "g">>}

\* the pattern ^(image|video)\/
StartsWith(str, prefix) ==
  Len(str) >= Len(prefix) /\ SubSeq(str, 1, Len(prefix)) = prefix

MatchesPattern(contentType) ==
  \/ StartsWith(contentType, <<"i", "m", "a", "g", "e", "/">>)
  \/ StartsWith(contentType, <<"v", "i", "d", "e", "o", "/">>)

InitiateUploadSchema_None(contentType, totalSize) == TRUE

\* InitiateUploadSchema: contentType and totalSize (minimum 1, maximum 5 GiB)
InitiateUploadSchema(contentType, totalSize) ==
  /\ MatchesPattern(contentType)
  /\ WideLeq(Wide(0, 1), totalSize)
  /\ WideLeq(totalSize, Wide(5, 0))

\* POST /initiate
InitiateBy(userId, totalSize, s3ok) ==
  LET u == Len(rec) + 1
      uploadType == IF totalSize >= MULTIPART_THRESHOLD THEN "multipart" ELSE "single"
  IN /\ IF uploadType = "multipart" /\ ~s3ok
        THEN \* initiateMultipartUpload throws: no record is created
             /\ reply' = Reply("initiate", 0, 500, "Failed to initiate upload")
             /\ UNCHANGED <<rec, mpu>>
        ELSE /\ mpu' = IF uploadType = "multipart" THEN [mpu EXCEPT ![u] = "open"] ELSE mpu
             /\ rec' = Append(rec, NewRecord(userId, uploadType, totalSize))
             /\ reply' = Reply("initiate", u, 200, "")
     /\ UNCHANGED <<tempObj, finalObj, calls, promo, now, abortOk>>

\* the chunkSize of a request: left out, or a number the schema admits (from
\* 1 KiB to 100 MiB)
MiB == 1024 * 1024
ChunkArgs == {<<>>, <<1024>>, <<3000000>>, <<5 * MiB>>, <<10 * MiB>>, <<100 * MiB>>}
\* the totalSizes of these requests, on both sides of the threshold and of
\* the multiples of the chunkSize
ChunkTotalSizes == {1000, 5 * MiB, 5 * MiB + 1, 10 * MiB, 10 * MiB + 1, 25 * MiB}

\* Math.ceil(totalSize / chunkSize)
Ceil_Floor(a, b) == a \div b
Ceil(a, b) == (a \div b) + (IF a % b = 0 THEN 0 ELSE 1)

\* the response of /initiate with its hints
InitiateReply(u, uploadType, chunkSize, totalChunks) ==
  [op |-> "initiate", u |-> u, code |-> 200, error |-> "",
   uploadType |-> uploadType, chunkSize |-> chunkSize, totalChunks |-> totalChunks]

\* POST /initiate, the whole handler: chunkSize defaults to 10 MiB, the store
\* begins the multipart upload (s3ok), the record is created (dbok), and the
\* response carries chunkSize and totalChunks.  An error of either call is
\* caught and answered 500; the catch undoes nothing.  The id the store gave
\* to an upload is not given again.
InitiateWith(userId, totalSize, chunkArg, s3ok, dbok) ==
  LET u == Len(rec) + 1
      chunkSize == IF chunkArg = <<>> THEN 10 * MiB ELSE chunkArg[1]
      uploadType == IF totalSize >= MULTIPART_THRESHOLD THEN "multipart" ELSE "single"
      totalChunks == IF uploadType = "multipart" THEN Ceil(totalSize, chunkSize) ELSE 1
  IN /\ u \in DOMAIN mpu /\ mpu[u] = "none"
     /\ mpu' = IF uploadType = "multipart" /\ s3ok THEN [mpu EXCEPT ![u] = "open"] ELSE mpu
     /\ IF (uploadType = "multipart" /\ ~s3ok) \/ ~dbok
        THEN /\ reply' = Reply("initiate", 0, 500, "Failed to initiate upload")
             /\ UNCHANGED rec
        ELSE /\ rec' = Append(rec, NewRecord(userId, uploadType, totalSize))
             /\ reply' = InitiateReply(u, uploadType,
                                       IF uploadType = "multipart" THEN chunkSize
                                       ELSE totalSize,
                                       totalChunks)
     /\ UNCHANGED <<tempObj, finalObj, calls, promo, now, abortOk>>

\* the request as it arrives: the body is validated against the schema before
\* the handler runs; a body that fails is answered 400 by the error handler.
\* The handler runs here for the sizes below 2 GiB.
InitiateRequest(userId, contentType, totalSize, s3ok) ==
  IF ~InitiateUploadSchema(contentType, totalSize)
  THEN /\ reply' = Reply("initiate", 0, 400, "Bad Request")
       /\ UNCHANGED <<rec, store, calls, promo, now, abortOk>>
  ELSE /\ totalSize[1] \in {0, 1}
       /\ Len(rec) + 1 \in Uploads
       /\ InitiateBy(userId, totalSize[1] * GiB + totalSize[2], s3ok)

\* Alice's, while the model has room for another upload
Initiate(totalSize, s3ok) ==
  Len(rec) + 1 \in Uploads /\ InitiateBy(Alice, totalSize, s3ok)

\* ------------------------------------------------ POST /complete-part
Finish(c) == calls' = [calls EXCEPT ![c] = IdleCall]

\* the route's lookup: the record must exist and be multipart
AckStartBy(userId, c, u, part) ==
  /\ FreeCall(c)
  /\ IF ~Found(u, userId)
     THEN /\ reply' = Reply("complete-part", u, 404, "Upload not found")
          /\ UNCHANGED calls
     ELSE IF rec[u].upload_type # "multipart"
     THEN /\ reply' = Reply("complete-part", u, 400,
                            "Part completion only supported for multipart uploads")
          /\ UNCHANGED calls
     ELSE /\ calls' = [calls EXCEPT ![c] =
                         [IdleCall EXCEPT !.op = "complete-part", !.pc = "read",
                                          !.u = u, !.part = part]]
          /\ reply' = NoReply
  /\ UNCHANGED <<rec, store, promo, now, abortOk>>

\* Alice's acknowledgement
AckStart(c, u, part) == AckStartBy(Alice, c, u, part)

\* updateUploadPart reads the row
AckRead(c) ==
  /\ calls[c].op = "complete-part" /\ calls[c].pc = "read"
  /\ calls' = [calls EXCEPT ![c].pc = "write", ![c].snap = rec[calls[c].u].parts]
  /\ reply' = NoReply
     /\ UNCHANGED <<rec, store, promo, now, abortOk>>

\* updateUploadPart writes the parts it computed from the row it read
AckWrite(c) ==
  LET u == calls[c].u
      part == calls[c].part
  IN /\ calls[c].op = "complete-part" /\ calls[c].pc = "write"
     /\ rec' = [rec EXCEPT ![u].parts = UpsertPart(calls[c].snap, part)]
     /\ reply' = AckReply(u, FindIndex(calls[c].snap, part.partNumber) >= 1)
     /\ Finish(c)
     /\ UNCHANGED <<store, promo, now, abortOk>>

\* ----------------------------------------------------- POST /complete
CompleteStart_NoStatusCheck(c, u, parts) ==
  /\ FreeCall(c)
  /\ IF ~Exists(u)
     THEN /\ reply' = Reply("complete", u, 404, "Upload not found")
          /\ UNCHANGED calls
     ELSE IF rec[u].upload_type = "multipart" /\ Len(parts) = 0
     THEN /\ reply' = Reply("complete", u, 400, "Parts required for multipart upload")
          /\ UNCHANGED calls
     ELSE /\ calls' = [calls EXCEPT ![c] =
                         [IdleCall EXCEPT !.op = "complete", !.u = u, !.parts = parts,
                            !.pc = IF rec[u].upload_type = "multipart"
                                   THEN "store" ELSE "mark"]]
          /\ reply' = NoReply
  /\ UNCHANGED <<rec, store, promo, now, abortOk>>

CompleteStart_AlwaysStore(c, u, parts) ==
  /\ FreeCall(c)
  /\ IF ~Exists(u)
     THEN /\ reply' = Reply("complete", u, 404, "Upload not found")
          /\ UNCHANGED calls
     ELSE IF rec[u].status # "active"
     THEN /\ reply' = Reply("complete", u, 400, "Upload is not active")
          /\ UNCHANGED calls
     ELSE IF rec[u].upload_type = "multipart" /\ Len(parts) = 0
     THEN /\ reply' = Reply("complete", u, 400, "Parts required for multipart upload")
          /\ UNCHANGED calls
     ELSE /\ calls' = [calls EXCEPT ![c] =
                         [IdleCall EXCEPT !.op = "complete", !.u = u, !.parts = parts,
                            !.pc = "store"]]
          /\ reply' = NoReply
  /\ UNCHANGED <<rec, store, promo, now, abortOk>>

CompleteStart_NoPartsCheck(c, u, parts) ==
  /\ FreeCall(c)
  /\ IF ~Exists(u)
     THEN /\ reply' = Reply("complete", u, 404, "Upload not found")
          /\ UNCHANGED calls
     ELSE IF rec[u].status # "active"
     THEN /\ reply' = Reply("complete", u, 400, "Upload is not active")
          /\ UNCHANGED calls
     ELSE /\ calls' = [calls EXCEPT ![c] =
                         [IdleCall EXCEPT !.op = "complete", !.u = u, !.parts = parts,
                            !.pc = IF rec[u].upload_type = "multipart"
                                   THEN "store" ELSE "mark"]]
          /\ reply' = NoReply
  /\ UNCHANGED <<rec, store, promo, now, abortOk>>

\* the lookup and the checks up to the first awaited call
CompleteStartBy(userId, c, u, parts) ==
  /\ FreeCall(c)
  /\ IF ~Found(u, userId)
     THEN /\ reply' = Reply("complete", u, 404, "Upload not found")
          /\ UNCHANGED calls
     ELSE IF rec[u].status # "active"
     THEN /\ reply' = Reply("complete", u, 400, "Upload is not active")
          /\ UNCHANGED calls
     ELSE IF rec[u].upload_type = "multipart" /\ Len(parts) = 0
     THEN /\ reply' = Reply("complete", u, 400, "Parts required for multipart upload")
          /\ UNCHANGED calls
     ELSE /\ calls' = [calls EXCEPT ![c] =
                         [IdleCall EXCEPT !.op = "complete", !.u = u, !.parts = parts,
                            !.pc = IF rec[u].upload_type = "multipart"
                                   THEN "store" ELSE "mark"]]
          /\ reply' = NoReply
  /\ UNCHANGED <<rec, store, promo, now, abortOk>>

\* Alice's complete
CompleteStart(c, u, parts) == CompleteStartBy(Alice, c, u, parts)

\* S3UploadService.completeMultipartUpload: the store completes the multipart
\* upload if it is open and the part list is the one it holds, and rejects the
\* call otherwise
CompleteStore(c, ok) ==
  LET u == calls[c].u
  IN /\ calls[c].op = "complete" /\ calls[c].pc = "store"
     /\ ok => mpu[u] = "open"
     /\ IF ok
        THEN /\ mpu' = [mpu EXCEPT ![u] = "completed"]
             /\ tempObj' = [tempObj EXCEPT ![u] = TRUE]
             /\ calls' = [calls EXCEPT ![c].pc = "mark"]
        ELSE /\ calls' = [calls EXCEPT ![c].pc = "s3Error"]
             /\ UNCHANGED <<mpu, tempObj>>
     /\ reply' = NoReply
     /\ UNCHANGED <<rec, finalObj, promo, now, abortOk>>

CompleteMark_RunsPromotion(c) ==
  LET u == calls[c].u
  IN /\ calls[c].op = "complete" /\ calls[c].pc = "mark"
     /\ \E p \in DOMAIN promo :
          /\ FreePromo(p)
          /\ promo' = [promo EXCEPT ![p] = [IdlePromo EXCEPT !.pc = "copy", !.u = u]]
     /\ rec' = [rec EXCEPT ![u] = MarkUploadCompleted(@, NoKey, "undefined")]
     /\ reply' = Reply("complete", u, 200, "")
     /\ Finish(c)
     /\ UNCHANGED <<store, now, abortOk>>

\* markUploadCompleted, the reply and scheduleProcessing.  The callbacks are a
\* bounded pool here: the step waits for a free one.
CompleteMark(c) ==
  LET u == calls[c].u
  IN /\ calls[c].op = "complete" /\ calls[c].pc = "mark"
     /\ \E p \in DOMAIN promo :
          /\ FreePromo(p)
          /\ promo' = [promo EXCEPT ![p] = [IdlePromo EXCEPT !.pc = "scheduled", !.u = u]]
     /\ rec' = [rec EXCEPT ![u] = MarkUploadCompleted(@, NoKey, "undefined")]
     /\ reply' = Reply("complete", u, 200, "")
     /\ Finish(c)
     /\ UNCHANGED <<store, now, abortOk>>

\* the catch of the store's rejection: markUploadFailed, then the error is thrown on
CompleteFail(c) ==
  LET u == calls[c].u
  IN /\ calls[c].op = "complete" /\ calls[c].pc = "s3Error"
     /\ rec' = [rec EXCEPT ![u] = MarkUploadFailed(@)]
     /\ reply' = Reply("complete", u, 500, "Failed to complete upload")
     /\ Finish(c)
     /\ UNCHANGED <<store, promo, now, abortOk>>

\* -------------------------------------------------------- POST /abort
\* the lookup: the record must exist; its status is not looked at
AbortStartBy(userId, c, u) ==
  /\ FreeCall(c)
  /\ IF ~Found(u, userId)
     THEN /\ reply' = Reply("abort", u, 404, "Upload not found")
          /\ UNCHANGED calls
     ELSE /\ calls' = [calls EXCEPT ![c] =
                         [IdleCall EXCEPT !.op = "abort", !.u = u,
                            !.pc = IF rec[u].upload_type = "multipart"
                                   THEN "store" ELSE "mark"]]
          /\ reply' = NoReply
  /\ UNCHANGED <<rec, store, promo, now, abortOk>>

\* Alice's abort
AbortStart(c, u) == AbortStartBy(Alice, c, u)

\* S3UploadService.abortMultipartUpload: a rejection by the store is thrown to
\* the handler's catch
AbortStore(c, ok) ==
  LET u == calls[c].u
  IN /\ calls[c].op = "abort" /\ calls[c].pc = "store"
     /\ ok => mpu[u] = "open"
     /\ IF ok
        THEN /\ mpu' = [mpu EXCEPT ![u] = "aborted"]
             /\ calls' = [calls EXCEPT ![c].pc = "mark"]
             /\ reply' = NoReply
        ELSE /\ reply' = Reply("abort", u, 500, "Failed to abort upload")
             /\ Finish(c)
             /\ UNCHANGED mpu
     /\ UNCHANGED <<rec, tempObj, finalObj, promo, now, abortOk>>

\* markUploadAborted and the reply
AbortMark(c) ==
  LET u == calls[c].u
  IN /\ calls[c].op = "abort" /\ calls[c].pc = "mark"
     /\ rec' = [rec EXCEPT ![u] = MarkUploadAborted(@)]
     /\ reply' = Reply("abort", u, 200, "")
     /\ abortOk' = [abortOk EXCEPT ![u] = @ \/ rec[u].status = "active"]
     /\ Finish(c)
     /\ UNCHANGED <<store, promo, now>>

\* ----------------------------------- FileProcessorService.processUpload
EndPromo(p) == promo' = [promo EXCEPT ![p] = IdlePromo]

PromoStart_NoStatusCheck(p) ==
  /\ promo[p].pc = "scheduled"
  /\ promo' = [promo EXCEPT ![p].pc = "copy"]
  /\ reply' = NoReply
  /\ UNCHANGED <<rec, store, calls, now, abortOk>>

\* the timer fires: the record is read, and nothing is done unless it is completed
PromoStart(p) ==
  LET u == promo[p].u
  IN /\ promo[p].pc = "scheduled"
     /\ IF rec[u].status # "completed"
        THEN /\ EndPromo(p)
             /\ reply' = ProcessingResult(u, FALSE, "Upload not completed")
        ELSE /\ promo' = [promo EXCEPT ![p].pc = "copy"]
             /\ reply' = NoReply
     /\ UNCHANGED <<rec, store, calls, now, abortOk>>

\* copyObject from the temp bucket to the final bucket, under the same key
PromoCopy(p, ok) ==
  LET u == promo[p].u
  IN /\ promo[p].pc = "copy"
     /\ ok => tempObj[u]
     /\ IF ok
        THEN /\ finalObj' = [finalObj EXCEPT ![u] = TRUE]
             /\ promo' = [promo EXCEPT ![p].pc = "persist"]
        ELSE /\ promo' = [promo EXCEPT ![p].pc = "cleanupFinal", ![p].err = "copyObject"]
             /\ UNCHANGED finalObj
     /\ reply' = NoReply
     /\ UNCHANGED <<rec, mpu, tempObj, calls, now, abortOk>>

\* markUploadCompleted with the final location (the scan in between is a stub
\* that reports clean)
PromoPersist(p, ok) ==
  LET u == promo[p].u
  IN /\ promo[p].pc = "persist"
     /\ IF ok
        THEN /\ rec' = [rec EXCEPT ![u] = MarkUploadCompleted(@, S3Key(u), "final")]
             /\ promo' = [promo EXCEPT ![p].pc = "delete"]
        ELSE /\ promo' = [promo EXCEPT ![p].pc = "cleanupFinal",
                                         ![p].err = "markUploadCompleted"]
             /\ UNCHANGED rec
     /\ reply' = NoReply
     /\ UNCHANGED <<store, calls, now, abortOk>>

\* deleteObject of the temp object
PromoDelete(p, ok) ==
  LET u == promo[p].u
  IN /\ promo[p].pc = "delete"
     /\ IF ok
        THEN /\ tempObj' = [tempObj EXCEPT ![u] = FALSE]
             /\ EndPromo(p)
             /\ reply' = ProcessingResult(u, TRUE, "")
        ELSE /\ promo' = [promo EXCEPT ![p].pc = "cleanupFinal", ![p].err = "deleteObject"]
             /\ UNCHANGED tempObj
             /\ reply' = NoReply
     /\ UNCHANGED <<rec, mpu, finalObj, calls, now, abortOk>>

\* the branch processUpload takes when the scan of the copied object reports
\* not clean: deleteObject of the final object (no thumbnail is made, so there
\* is none to delete), then the result is returned; a delete that throws goes
\* to the catch.  performVirusScan as it stands always reports clean, so this
\* step is taken only once a scanner is put in its place.
PromoScanNotClean(p, ok) ==
  LET u == promo[p].u
  IN /\ promo[p].pc = "persist"
     /\ IF ok
        THEN /\ finalObj' = [finalObj EXCEPT ![u] = FALSE]
             /\ EndPromo(p)
             /\ reply' = ProcessingResult(u, FALSE, "File failed virus scan")
        ELSE /\ promo' = [promo EXCEPT ![p].pc = "cleanupFinal", ![p].err = "deleteObject"]
             /\ reply' = NoReply
             /\ UNCHANGED finalObj
     /\ UNCHANGED <<rec, mpu, tempObj, calls, now, abortOk>>

PromoCleanupFinal_Throws(p, ok) ==
  LET u == promo[p].u
  IN /\ promo[p].pc = "cleanupFinal"
     /\ IF ok
        THEN /\ finalObj' = [finalObj EXCEPT ![u] = FALSE]
             /\ promo' = [promo EXCEPT ![p].pc = "cleanupTemp"]
             /\ reply' = NoReply
        ELSE /\ EndPromo(p)
             /\ reply' = ProcessingResult(u, FALSE, "deleteObject")
             /\ UNCHANGED finalObj
     /\ UNCHANGED <<rec, mpu, tempObj, calls, now, abortOk>>

\* cleanupFailedProcessing: delete the final object; an error is ignored
PromoCleanupFinal(p, ok) ==
  LET u == promo[p].u
  IN /\ promo[p].pc = "cleanupFinal"
     /\ finalObj' = IF ok THEN [finalObj EXCEPT ![u] = FALSE] ELSE finalObj
     /\ promo' = [promo EXCEPT ![p].pc = "cleanupTemp"]
     /\ reply' = NoReply
     /\ UNCHANGED <<rec, mpu, tempObj, calls, now, abortOk>>

\* cleanupFailedProcessing: delete the temp object; an error is logged
PromoCleanupTemp(p, ok) ==
  LET u == promo[p].u
  IN /\ promo[p].pc = "cleanupTemp"
     /\ tempObj' = IF ok THEN [tempObj EXCEPT ![u] = FALSE] ELSE tempObj
     /\ promo' = [promo EXCEPT ![p].pc = "markFailed"]
     /\ reply' = NoReply
     /\ UNCHANGED <<rec, mpu, finalObj, calls, now, abortOk>>

\* the catch of processUpload: markUploadFailed, and the error caught is thrown
\* on to the outer catch, which returns it in the result
PromoMarkFailed(p) ==
  LET u == promo[p].u
  IN /\ promo[p].pc = "markFailed"
     /\ rec' = [rec EXCEPT ![u] = MarkUploadFailed(@)]
     /\ EndPromo(p)
     /\ reply' = ProcessingResult(u, FALSE, promo[p].err)
     /\ UNCHANGED <<store, calls, now, abortOk>>

\* ------------------------------------------------------------ clients
\* the client of a single upload PUTs the object through its presigned URL
ClientPut(u) ==
  /\ Exists(u) /\ rec[u].upload_type = "single"
  /\ ~tempObj[u]
  /\ tempObj' = [tempObj EXCEPT ![u] = TRUE]
  /\ reply' = NoReply
     /\ UNCHANGED <<rec, mpu, finalObj, calls, promo, now, abortOk>>

\* ------------------------------------------------------- GET /status
\* parts.reduce((sum, part) => sum + part.size, 0)
RECURSIVE SumSizes(_)
SumSizes(parts) ==
  IF parts = <<>> THEN 0 ELSE Head(parts).size + SumSizes(Tail(parts))

UploadedSize_FromParts(r) == SumSizes(r.parts)

\* the uploadedSize of the /status handler
UploadedSize(r) ==
  IF r.upload_type = "multipart"
  THEN SumSizes(r.parts)
  ELSE IF r.status = "completed" THEN r.total_size ELSE 0

\* Math.round(progress * 100) / 100 of the percentage, in hundredths of a
\* percent (10000 is 100%); Math.round rounds a half up.  The quotient is taken
\* digit by digit, which keeps the intermediate values small.
Percent(x, t) ==
  IF t > 0
  THEN LET r0 == x % t
           r1 == (r0 * 10) % t
           r2 == (r1 * 10) % t
           r3 == (r2 * 10) % t
           r4 == (r3 * 10) % t
       IN (x \div t) * 10000 + ((r0 * 10) \div t) * 1000 + ((r1 * 10) \div t) * 100
          + ((r2 * 10) \div t) * 10 + ((r3 * 10) \div t)
          + (IF 2 * r4 >= t THEN 1 ELSE 0)
  ELSE 0

\* the progress of the /status handler
Progress(r) == Percent(UploadedSize(r), r.total_size)

StatusReply(u, r) ==
  [op |-> "status", u |-> u, code |-> 200, error |-> "",
   status |-> r.status, uploadType |-> r.upload_type, uploadedParts |-> r.parts,
   totalParts |-> IF r.upload_type = "multipart"
                  THEN (r.total_size \div (10 * 1024 * 1024))
                       + (IF r.total_size % (10 * 1024 * 1024) = 0 THEN 0 ELSE 1)
                  ELSE 1,
   uploadedSize |-> UploadedSize(r), totalSize |-> r.total_size,
   progress |-> Progress(r)]

\* the handler: one read of the record, then the response
GetStatusBy(userId, u) ==
  /\ reply' = IF ~Found(u, userId)
              THEN Reply("status", u, 404, "Upload not found")
              ELSE StatusReply(u, rec[u])
  /\ UNCHANGED <<rec, store, calls, promo, now, abortOk>>

\* Alice's request
GetStatus(u) == GetStatusBy(Alice, u)

\* ------------------------------------------ GET /api/v1/uploads/:id/status
ReadyForDisplay_IgnoreKey(r) ==
  /\ r.status = "completed"
  /\ (r.processing_status = "processed" \/ r.processing_status = "null")

\* UploadDbService.getUploadStatus: ready_for_display
ReadyForDisplay(r) ==
  /\ r.status = "completed"
  /\ (r.processing_status = "processed" \/ r.processing_status = "null")
  /\ r.final_s3_key # NoKey

\* UploadDbService.getUploadStatus: the object returned for a row
UploadStatus(u, r) ==
  [op |-> "upload-status", u |-> u, code |-> 200, error |-> "",
   upload_status |-> r.status,
   processing_status |-> r.processing_status,
   processing_progress |-> r.processing_progress,
   ready_for_display |-> ReadyForDisplay(r)]

\* the route: one read of the row, then the response
GetUploadStatusBy(userId, u) ==
  /\ reply' = IF ~Found(u, userId)
              THEN Reply("upload-status", u, 404, "Upload not found")
              ELSE UploadStatus(u, rec[u])
  /\ UNCHANGED <<rec, store, calls, promo, now, abortOk>>

\* Alice's request
GetUploadStatus(u) == GetUploadStatusBy(Alice, u)

\* ---------------------------------------- POST /api/v1/uploads/status/bulk
\* the uploadIds a bulk request carries: ids of rows, an id no row has, an
\* id twice
BulkArgs == {<<>>, <<3>>, <<1, 1>>, <<2, 1, 3>>}

Range(ids) == {ids[i] : i \in DOMAIN ids}

\* the response object: one property for each uploadId whose status is not null
BulkReply(entries) ==
  [op |-> "bulk-status", u |-> 0, code |-> 200, error |-> "", entries |-> entries]

BulkStatus_FailOnMissing(userId, ids) ==
  IF \A u \in Range(ids) : Found(u, userId)
  THEN BulkReply([u \in Range(ids) |-> UploadStatus(u, rec[u])])
  ELSE Reply("bulk-status", 0, 500, "Failed to get upload status")

\* uploadIds.map(getUploadStatus), Promise.all, then the entries that are not
\* null
BulkStatus(userId, ids) ==
  BulkReply([u \in {v \in Range(ids) : Found(v, userId)} |-> UploadStatus(u, rec[u])])

\* the route: the reads of the rows, then the response
GetBulkStatusBy(userId, ids) ==
  /\ reply' = BulkStatus(userId, ids)
  /\ UNCHANGED <<rec, store, calls, promo, now, abortOk>>

\* -------------------------------------------------------- GET /active
\* UploadDbService.getActiveUploads: the user's rows with status 'active'
ActiveUploads_AnyUser(userId) ==
  {u \in DOMAIN rec : rec[u].status = "active"}

ActiveUploads(userId) ==
  {u \in DOMAIN rec : rec[u].user_id = userId /\ rec[u].status = "active"}

\* the route: one entry for each active upload of the user (the order of the
\* entries, newest first, is left out)
ListActiveBy(userId) ==
  /\ reply' = [op |-> "active", u |-> 0, code |-> 200, error |-> "",
               uploads |-> {[uploadId |-> u, totalSize |-> rec[u].total_size,
                             uploadedSize |-> SumSizes(rec[u].parts),
                             progress |-> Percent(SumSizes(rec[u].parts), rec[u].total_size),
                             createdAt |-> rec[u].created_at]
                            : u \in ActiveUploads(userId)}]
  /\ UNCHANGED <<rec, store, calls, promo, now, abortOk>>

\* ------------------------------- UploadDbService.updateProcessingStatus
Max(a, b) == IF a >= b THEN a ELSE b
Min(a, b) == IF a <= b THEN a ELSE b

Clamp_None(progress) == progress

\* Math.max(0, Math.min(100, progress))
Clamp(progress) == Max(0, Min(100, progress))

\* the call that has just returned (it returns nothing); progress is <<>> when
\* the caller gave none
UpdatedReply(u, processingStatus, progress) ==
  [op |-> "updateProcessingStatus", u |-> u, code |-> 0, error |-> "",
   processingStatus |-> processingStatus, progress |-> progress]

\* the UPDATE of the caller's row: processing_status always, processing_progress
\* only when a progress is given; no row matches an unknown upload_id
UpdateProcessingStatus(u, processingStatus, progress) ==
  /\ rec' = IF ~Exists(u) THEN rec
            ELSE [rec EXCEPT ![u].processing_status = processingStatus,
                             ![u].processing_progress =
                                IF progress = <<>> THEN @ ELSE Clamp(progress[1])]
  /\ reply' = UpdatedReply(u, processingStatus, progress)
  /\ UNCHANGED <<store, calls, promo, now, abortOk>>

\* ---------------------------------------------------------- POST /url
\* the presigned URL of the response: an UploadPart URL for a part of the
\* multipart upload, or a PutObject URL for the key
UrlReply(u, partNumber) ==
  [op |-> "url", u |-> u, code |-> 200, error |-> "",
   uploadUrl |-> IF partNumber = NoPartNumber
                 THEN <<"PutObject", S3Key(u)>>
                 ELSE <<"UploadPart", S3Key(u), partNumber>>]

UrlStart_NoStatusCheck(c, u, partNumber) ==
  /\ FreeCall(c)
  /\ IF ~Exists(u)
     THEN /\ reply' = Reply("url", u, 404, "Upload not found")
          /\ UNCHANGED calls
     ELSE IF rec[u].upload_type = "multipart" /\ partNumber = NoPartNumber
     THEN /\ reply' = Reply("url", u, 400, "Part number required for multipart upload")
          /\ UNCHANGED calls
     ELSE /\ calls' = [calls EXCEPT ![c] =
                         [IdleCall EXCEPT !.op = "url", !.pc = "sign", !.u = u,
                            !.part = [NoPart EXCEPT !.partNumber =
                                        IF rec[u].upload_type = "multipart"
                                        THEN partNumber ELSE NoPartNumber]]]
          /\ reply' = NoReply
  /\ UNCHANGED <<rec, store, promo, now, abortOk>>

\* the lookup and the checks up to the signing
UrlStartBy(userId, c, u, partNumber) ==
  /\ FreeCall(c)
  /\ IF ~Found(u, userId)
     THEN /\ reply' = Reply("url", u, 404, "Upload not found")
          /\ UNCHANGED calls
     ELSE IF rec[u].status # "active"
     THEN /\ reply' = Reply("url", u, 400, "Upload is not active")
          /\ UNCHANGED calls
     ELSE IF rec[u].upload_type = "multipart" /\ partNumber = NoPartNumber
     THEN /\ reply' = Reply("url", u, 400, "Part number required for multipart upload")
          /\ UNCHANGED calls
     ELSE /\ calls' = [calls EXCEPT ![c] =
                         [IdleCall EXCEPT !.op = "url", !.pc = "sign", !.u = u,
                            !.part = [NoPart EXCEPT !.partNumber =
                                        IF rec[u].upload_type = "multipart"
                                        THEN partNumber ELSE NoPartNumber]]]
          /\ reply' = NoReply
  /\ UNCHANGED <<rec, store, promo, now, abortOk>>

\* Alice's request of a URL
UrlStart(c, u, partNumber) == UrlStartBy(Alice, c, u, partNumber)

\* generatePresignedUploadUrl / generatePresignedPutUrl and the response; a
\* signing that throws is answered by the handler's catch
UrlSign(c, ok) ==
  LET u == calls[c].u
  IN /\ calls[c].op = "url" /\ calls[c].pc = "sign"
     /\ reply' = IF ok THEN UrlReply(u, calls[c].part.partNumber)
                 ELSE Reply("url", u, 500, "Failed to generate upload URL")
     /\ Finish(c)
     /\ UNCHANGED <<rec, store, promo, now, abortOk>>

\* the requests that read: /url and /status
ReadRequest ==
  \E u \in Uploads :
     \/ \E c \in Calls, partNumber \in PartNumberArgs : UrlStart(c, u, partNumber)
     \/ GetStatus(u)

\* a request arrives
Request ==
  \E c \in Calls, u \in Uploads :
     \/ \E part \in Parts : AckStart(c, u, part)
     \/ \E parts \in PartLists : CompleteStart(c, u, parts)
     \/ AbortStart(c, u)

\* a handler, a promotion or the environment takes a step
Step ==
  \/ Tick
  \/ \E c \in Calls : AckRead(c) \/ AckWrite(c)
  \/ \E c \in Calls, ok \in BOOLEAN : CompleteStore(c, ok) \/ AbortStore(c, ok)
  \/ \E c \in Calls : CompleteMark(c) \/ CompleteFail(c) \/ AbortMark(c)
  \/ \E p \in Promos : PromoStart(p) \/ PromoMarkFailed(p)
  \/ \E p \in Promos, ok \in BOOLEAN :
        \/ PromoCopy(p, ok)
        \/ PromoPersist(p, ok)
        \/ PromoDelete(p, ok)
        \/ PromoCleanupFinal(p, ok)
        \/ PromoCleanupTemp(p, ok)
  \/ \E u \in Uploads : ClientPut(u)
  \/ \E olderThan \in Times : CleanupStaleUploads(olderThan)

Next ==
  \/ \E t \in TotalSizes, ok \in BOOLEAN : Initiate(t, ok)
  \/ Request
  \/ Step

\* requests in any interleaving
Spec == Init /\ [][Next]_vars

\* one request at a time: a request arrives when no handler is in flight
Quiet == \A c \in Calls : calls[c].pc = "idle"

NextSeq ==
  \/ \E t \in TotalSizes, ok \in BOOLEAN : Quiet /\ Initiate(t, ok)
  \/ Quiet /\ Request
  \/ Step

SpecSeq == Init /\ [][NextSeq]_vars

\* the reading requests at any time, also while a writing handler is in
\* flight; the writing requests one at a time
NoWriter == \A c \in Calls : calls[c].op \in {"none", "url"}

NextRead ==
  \/ \E t \in TotalSizes, ok \in BOOLEAN : NoWriter /\ Initiate(t, ok)
  \/ NoWriter /\ Request
  \/ Step
  \/ ReadRequest
  \/ \E c \in Calls, ok \in BOOLEAN : UrlSign(c, ok)

SpecRead == Init /\ [][NextRead]_vars

\* the uploads of any valid size as they are initiated, asked about and aborted
NextInitiate ==
  \/ \E t \in InitiateSizes, ok \in BOOLEAN : Initiate(t, ok)
  \/ ReadRequest
  \/ \E c \in Calls, u \in Uploads : AbortStart(c, u)
  \/ \E c \in Calls, ok \in BOOLEAN : UrlSign(c, ok) \/ AbortStore(c, ok)
  \/ \E c \in Calls : AbortMark(c)
  \/ Tick

SpecInitiate == Init /\ [][NextInitiate]_vars

\* two users and two uploads, one request at a time: Alice initiates the first
\* upload, either user the second (the users are interchangeable), and either
\* user asks for any operation on any upload
NumOwnerUploads == 2
OwnerUploads == 1..NumOwnerUploads
OwnerPart == [partNumber |-> 1, etag |-> "e1", size |-> 3]
OwnerPartNumberArgs == {NoPartNumber, 1}

InitOwner ==
  /\ rec = <<>>
  /\ mpu = [u \in OwnerUploads |-> "none"]
  /\ tempObj = [u \in OwnerUploads |-> FALSE]
  /\ finalObj = [u \in OwnerUploads |-> FALSE]
  /\ calls = [c \in Calls |-> IdleCall]
  /\ promo = [p \in Promos |-> IdlePromo]
  /\ now = 0
  /\ reply = NoReply
  /\ abortOk = [u \in OwnerUploads |-> FALSE]

\* a request of a user about an upload
RequestBy(userId, u) ==
  \/ \E c \in Calls : AckStartBy(userId, c, u, OwnerPart)
  \/ \E c \in Calls, parts \in PartLists : CompleteStartBy(userId, c, u, parts)
  \/ \E c \in Calls : AbortStartBy(userId, c, u)
  \/ \E c \in Calls, partNumber \in OwnerPartNumberArgs :
        UrlStartBy(userId, c, u, partNumber)
  \/ GetStatusBy(userId, u)
  \/ GetUploadStatusBy(userId, u)

NextOwner ==
  \/ \E userId \in Users, t \in TotalSizes :
        /\ Quiet /\ Len(rec) < NumOwnerUploads
        /\ Len(rec) = 0 => userId = Alice
        /\ InitiateBy(userId, t, TRUE)
  \/ \E userId \in Users, u \in OwnerUploads : Quiet /\ RequestBy(userId, u)
  \/ \E userId \in Users, ids \in BulkArgs : Quiet /\ GetBulkStatusBy(userId, ids)
  \/ \E userId \in Users : Quiet /\ ListActiveBy(userId)
  \/ \E c \in Calls : AckRead(c) \/ AckWrite(c) \/ CompleteMark(c) \/ AbortMark(c)
  \/ \E c \in Calls : CompleteStore(c, TRUE) \/ AbortStore(c, TRUE) \/ UrlSign(c, TRUE)
  \/ \E p \in Promos : PromoStart(p)
  \/ \E p \in Promos : PromoCopy(p, TRUE) \/ PromoPersist(p, TRUE) \/ PromoDelete(p, TRUE)
  \/ \E u \in OwnerUploads : ClientPut(u)

SpecOwner == InitOwner /\ [][NextOwner]_vars

\* uploads created at different times, some of them aborted, and the calls of
\* cleanupStaleUploads with any age
NextCleanup ==
  \/ \E t \in TotalSizes : Len(rec) < NumOwnerUploads /\ InitiateBy(Alice, t, TRUE)
  \/ \E c \in Calls, u \in OwnerUploads : Quiet /\ AbortStart(c, u)
  \/ \E c \in Calls : AbortStore(c, TRUE) \/ AbortMark(c)
  \/ Tick
  \/ \E olderThan \in Times : CleanupStaleUploadsCall(olderThan)

SpecCleanup == InitOwner /\ [][NextCleanup]_vars

\* the initiate requests with any contentType and totalSize, and what can be
\* asked about the upload afterwards
NextValidate ==
  \/ \E contentType \in ContentTypeArgs, totalSize \in SizeArgs, ok \in BOOLEAN :
        InitiateRequest(Alice, contentType, totalSize, ok)
  \/ ReadRequest
  \/ \E c \in Calls, u \in Uploads : AbortStart(c, u)
  \/ \E c \in Calls, ok \in BOOLEAN : UrlSign(c, ok) \/ AbortStore(c, ok)
  \/ \E c \in Calls : AbortMark(c)
  \/ Tick

SpecValidate == Init /\ [][NextValidate]_vars

\* two uploads, each completed once and promoted by a timer of its own
NumIsolatedPromos == 2
IsolatedPromos == 1..NumIsolatedPromos

InitIsolated ==
  /\ rec = <<>>
  /\ mpu = [u \in OwnerUploads |-> "none"]
  /\ tempObj = [u \in OwnerUploads |-> FALSE]
  /\ finalObj = [u \in OwnerUploads |-> FALSE]
  /\ calls = [c \in Calls |-> IdleCall]
  /\ promo = [p \in IsolatedPromos |-> IdlePromo]
  /\ now = 0
  /\ reply = NoReply
  /\ abortOk = [u \in OwnerUploads |-> FALSE]

PromoRunnable_Queue(p) ==
  promo[p].pc # "idle" /\ \A q \in DOMAIN promo : q < p => promo[q].pc = "idle"

\* scheduleProcessing: every call sets a timer of its own, and the callback of
\* one timer waits for no other
PromoRunnable(p) == promo[p].pc # "idle"

\* a step of the promotion of upload u
PromoStepOf(u) ==
  \E p \in DOMAIN promo :
     /\ promo[p].u = u /\ PromoRunnable(p)
     /\ \/ PromoStart(p) \/ PromoMarkFailed(p)
        \/ \E ok \in BOOLEAN :
              \/ PromoCopy(p, ok)
              \/ PromoPersist(p, ok)
              \/ PromoDelete(p, ok)
              \/ PromoCleanupFinal(p, ok)
              \/ PromoCleanupTemp(p, ok)

\* the handler of /complete resumes
CompleteStep ==
  \/ \E c \in Calls : CompleteMark(c) \/ CompleteFail(c)
  \/ \E c \in Calls, ok \in BOOLEAN : CompleteStore(c, ok)

NextIsolated ==
  \/ \E t \in TotalSizes : Len(rec) < NumOwnerUploads /\ InitiateBy(Alice, t, TRUE)
  \/ \E u \in OwnerUploads : ClientPut(u)
  \/ \E c \in Calls, u \in OwnerUploads, parts \in PartLists :
        Quiet /\ CompleteStart(c, u, parts)
  \/ CompleteStep
  \/ \E u \in OwnerUploads : PromoStepOf(u)

\* the promotion of upload 1 may stall for ever at any of its steps; the timer
\* of upload 2 fires and every call its promotion awaits returns
SpecIsolated ==
  InitIsolated /\ [][NextIsolated]_vars /\ WF_vars(CompleteStep) /\ WF_vars(PromoStepOf(2))

\* the requests of /complete in any interleaving, two of them at once for the
\* same upload included, and a timer for every promotion they schedule
NextRace ==
  \/ \E t \in TotalSizes : Len(rec) < NumUploads /\ InitiateBy(Alice, t, TRUE)
  \/ \E u \in Uploads : ClientPut(u)
  \/ \E c \in Calls, u \in Uploads, parts \in PartLists : CompleteStart(c, u, parts)
  \/ CompleteStep
  \/ \E u \in Uploads : PromoStepOf(u)

SpecRace == InitIsolated /\ [][NextRace]_vars

\* the initiate requests with their chunkSize, with the store or the record
\* store failing or not, and the uploads aborted or asked about afterwards
NextChunks ==
  \/ \E t \in ChunkTotalSizes, chunkArg \in ChunkArgs, s3ok \in BOOLEAN, dbok \in BOOLEAN :
        InitiateWith(Alice, t, chunkArg, s3ok, dbok)
  \/ \E u \in OwnerUploads : GetStatus(u)
  \/ \E c \in Calls, u \in OwnerUploads : Quiet /\ AbortStart(c, u)
  \/ \E c \in Calls : AbortStore(c, TRUE) \/ AbortMark(c)

SpecChunks == InitOwner /\ [][NextChunks]_vars

\* ------------------------------ S3UploadService.completeMultipartUpload
\* the part lists a /complete request carries, mapped to PartNumber and ETag:
\* up to three parts in any order, a partNumber twice included
MaxSortLen == 3
PartPairs == {[PartNumber |-> n, ETag |-> e] : n \in 1..3, e \in {"e1", "e2"}}
PartPairLists == UNION {[1..n -> PartPairs] : n \in 0..MaxSortLen}

\* the place of a part in a sorted list: after the parts that are not greater
RECURSIVE InsertPart(_, _)
InsertPart(part, sorted) ==
  IF sorted = <<>> THEN <<part>>
  ELSE IF Head(sorted).PartNumber <= part.PartNumber
       THEN <<Head(sorted)>> \o InsertPart(part, Tail(sorted))
       ELSE <<part>> \o sorted

Sort_None(parts) == parts

\* the first n parts of the list, sorted
RECURSIVE SortUpTo(_, _)
SortUpTo(parts, n) ==
  IF n = 0 THEN <<>> ELSE InsertPart(parts[n], SortUpTo(parts, n - 1))

\* parts.sort((a, b) => a.PartNumber - b.PartNumber): ascending, and stable
Sort(parts) == SortUpTo(parts, Len(parts))

\* the command sent to the store: reply shows the list the caller supplied
\* and MultipartUpload.Parts of the command
CompleteMultipartUpload(parts) ==
  /\ reply' = [op |-> "completeMultipartUpload", u |-> 0, code |-> 0, error |-> "",
               supplied |-> parts, submitted |-> Sort(parts)]
  /\ UNCHANGED <<rec, store, calls, promo, now, abortOk>>

NextSort == \E parts \in PartPairLists : CompleteMultipartUpload(parts)

SpecSort == Init /\ [][NextSort]_vars

\* the rows the uploads table admits: every status with every
\* processing_status (null among them: the column is nullable) and with the
\* final location set or not
Rows ==
  {[NewRecord(Alice, t, 1000) EXCEPT !.status = st, !.processing_status = ps,
                              !.final_s3_key = k,
                              !.final_bucket = IF k = NoKey THEN "null" ELSE "final"] :
     t \in {"single", "multipart"},
     st \in {"active", "completed", "aborted", "failed"},
     ps \in {"pending", "processing", "processed", "failed", "null"},
     k \in {NoKey, S3Key(1)}}

InitRows ==
  /\ now = 0
  /\ rec \in {<<r>> : r \in Rows}
  /\ mpu = [u \in Uploads |-> "none"]
  /\ tempObj = [u \in Uploads |-> FALSE]
  /\ finalObj = [u \in Uploads |-> FALSE]
  /\ calls = [c \in Calls |-> IdleCall]
  /\ promo = [p \in Promos |-> IdlePromo]
  /\ reply = NoReply
  /\ abortOk = [u \in Uploads |-> FALSE]

\* the status facade asked about any row
NextFacade == \E u \in Uploads : GetUploadStatus(u)

SpecFacade == InitRows /\ [][NextFacade]_vars

\* the run without failures: uploads are initiated, their parts acknowledged
\* and they are completed, one request at a time; the store and the record
\* store refuse nothing, nothing is aborted, and the status facade is asked
PromoSucceeds ==
  \E p \in Promos :
     PromoStart(p) \/ PromoCopy(p, TRUE) \/ PromoPersist(p, TRUE) \/ PromoDelete(p, TRUE)

NextHappy ==
  \/ \E t \in TotalSizes : Quiet /\ Initiate(t, TRUE)
  \/ \E c \in Calls, u \in Uploads :
        \/ \E part \in Parts : Quiet /\ AckStart(c, u, part)
        \/ \E parts \in PartLists : Quiet /\ CompleteStart(c, u, parts)
  \/ \E c \in Calls : AckRead(c) \/ AckWrite(c) \/ CompleteStore(c, TRUE) \/ CompleteMark(c)
  \/ \E u \in Uploads : ClientPut(u)
  \/ PromoSucceeds
  \/ \E u \in Uploads : GetUploadStatus(u)
  \/ Tick

\* a handler that can resume does, the timer of a scheduled promotion fires
\* and the promotion goes on, and the client keeps asking for the status
SpecHappy ==
  /\ Init /\ [][NextHappy]_vars
  /\ WF_vars(\E c \in Calls : AckRead(c) \/ AckWrite(c) \/ CompleteStore(c, TRUE)
                                 \/ CompleteMark(c))
  /\ WF_vars(PromoSucceeds)
  /\ WF_vars(\E u \in Uploads : GetUploadStatus(u))

\* one request at a time, with a scanner that can report not clean
NextScan ==
  \/ NextSeq
  \/ \E p \in Promos, ok \in BOOLEAN : PromoScanNotClean(p, ok)

SpecScan == Init /\ [][NextScan]_vars

\* a step of a handler in flight, and a step of a promotion with either outcome
HandlerStep ==
  \/ \E c \in Calls : AckRead(c) \/ AckWrite(c) \/ CompleteMark(c) \/ CompleteFail(c)
                         \/ AbortMark(c)
  \/ \E c \in Calls, ok \in BOOLEAN : CompleteStore(c, ok) \/ AbortStore(c, ok)

PromoStep ==
  \/ \E p \in Promos : PromoStart(p) \/ PromoMarkFailed(p)
  \/ \E p \in Promos, ok \in BOOLEAN :
        \/ PromoCopy(p, ok)
        \/ PromoPersist(p, ok)
        \/ PromoDelete(p, ok)
        \/ PromoCleanupFinal(p, ok)
        \/ PromoCleanupTemp(p, ok)

\* one request at a time under fair scheduling: a handler that can resume
\* does, the timer of a scheduled promotion fires and every awaited call of a
\* promotion returns, with success or with an error
SpecFair == SpecSeq /\ WF_vars(HandlerStep) /\ WF_vars(PromoStep)

\* the processing state of an upload written by any caller of
\* updateProcessingStatus, and read through the status facade
NextProgress ==
  \/ \E t \in TotalSizes, ok \in BOOLEAN : Initiate(t, ok)
  \/ \E u \in Uploads, ps \in ProcessingStatuses, progress \in ProgressArgs :
        UpdateProcessingStatus(u, ps, progress)
  \/ \E u \in Uploads : GetUploadStatus(u)

SpecProgress == Init /\ [][NextProgress]_vars

\* ------------------------------------------------------------- claims
Finishes(c, op, pc) == calls[c].op = op /\ calls[c].pc = pc /\ calls'[c].pc = "idle"

AllowedStatusChanges ==
  {<<"active", "completed">>, <<"active", "aborted">>, <<"active", "failed">>,
   <<"completed", "failed">>}

\* C1: the status of a record changes only active->completed, active->aborted,
\* active->failed and completed->failed, the last only by a failed promotion;
\* an aborted or failed record never changes status again.
StatusTransitionsMonotonic ==
  [][\A u \in DOMAIN rec :
       rec'[u].status # rec[u].status =>
         /\ <<rec[u].status, rec'[u].status>> \in AllowedStatusChanges
         /\ rec[u].status = "completed" =>
              \E p \in Promos : promo[p].u = u /\ promo[p].pc = "markFailed"
                                /\ promo'[p].pc = "idle"]_vars

NotActiveReply(u) == Reply("complete", u, 400, "Upload is not active")

\* C2: a successful complete leaves the record completed, a record that is not
\* active never becomes active again, and a complete arriving for a record that
\* is not active is answered "Upload is not active", calls the store for
\* nothing, schedules no promotion and changes no field of any record.
SecondCompleteRejected ==
  [][\A u \in DOMAIN rec :
       /\ rec[u].status # "active" => rec'[u].status # "active"
       /\ \A c \in Calls :
            Finishes(c, "complete", "mark") /\ calls[c].u = u =>
              rec'[u].status = "completed" /\ reply' = Reply("complete", u, 200, "")
       /\ \A c \in Calls, parts \in PartLists :
            CompleteStart(c, u, parts) /\ rec[u].status # "active" =>
              /\ reply' = NotActiveReply(u)
              /\ UNCHANGED <<rec, mpu, tempObj, finalObj, calls, promo>>]_vars

\* C2 witness: a complete has just been rejected on a record an earlier
\* complete left completed
SecondCompleteRejectedWitness ==
  \E u \in DOMAIN rec :
     /\ reply = NotActiveReply(u)
     /\ rec[u].status = "completed" /\ rec[u].completed_at # NoTime
     /\ \A c \in Calls : calls[c].pc = "idle"

\* C3: of the complete calls racing on one upload at most one succeeds: no
\* complete call marks a record that a complete call has already completed,
\* or fails it.
AtMostOneCompleteSucceeds ==
  [][\A c \in Calls :
       (Finishes(c, "complete", "mark") \/ Finishes(c, "complete", "s3Error")) =>
          rec[calls[c].u].status # "completed"]_vars

\* C4: an abort arriving for a record that is completed, aborted or failed is
\* rejected at once: the handler goes no further (no store-side abort, no
\* markUploadAborted) and the status stays.
AbortOnlyWhenActive ==
  [][\A c \in Calls, u \in DOMAIN rec :
       AbortStart(c, u) /\ rec[u].status # "active" =>
          /\ reply'.code = 400
          /\ UNCHANGED <<rec, mpu, calls>>]_vars

PromotionStep(u) ==
  \E p \in Promos :
     /\ promo[p].u = u
     /\ \/ promo[p].pc = "copy" /\ promo'[p].pc = "persist"
        \/ promo[p].pc = "persist" /\ promo'[p].pc = "delete"
        \/ promo[p].pc = "delete" /\ promo'[p].pc = "idle"

\* C5: an abort that marks an active record leaves it aborted, and once such an
\* abort has succeeded no promotion step (the copy, the persisting of the final
\* location, the delete of the temp object) is performed for the upload.
NoPromotionAfterAbort ==
  [][/\ \A c \in Calls :
          Finishes(c, "abort", "mark") => rec'[calls[c].u].status = "aborted"
     /\ \A u \in Uploads : abortOk[u] => ~PromotionStep(u)]_vars

\* C6: when the store rejects abortMultipart for an active multipart upload,
\* the handler still goes on to mark the record aborted and answers success.
AbortSurvivesStoreFailure ==
  [][\A c \in Calls :
       ( /\ calls[c].op = "abort" /\ calls[c].pc = "store"
         /\ calls'[c] # calls[c]
         /\ rec[calls[c].u].status = "active" ) =>
            calls'[c].pc = "mark" /\ reply'.code # 500]_vars

CompleteFailedReply(u) == Reply("complete", u, 500, "Failed to complete upload")

\* C7: when the store rejects completeMultipart, the handler schedules no
\* promotion, marks the record failed and answers with an error.
StoreRejectionFailsComplete ==
  [][\A c \in Calls :
       calls[c].op = "complete" =>
         LET u == calls[c].u
         IN /\ (calls[c].pc = "store" /\ mpu[u] # "open" /\ calls'[c] # calls[c])
                  => calls'[c].pc = "s3Error"
            /\ (calls[c].pc = "store" /\ calls'[c].pc = "s3Error")
                  => promo' = promo /\ rec' = rec
            /\ calls[c].pc = "s3Error" =>
                  \/ calls'[c] = calls[c]
                  \/ /\ calls'[c].pc = "idle"
                     /\ rec'[u].status = "failed"
                     /\ reply' = CompleteFailedReply(u)
                     /\ promo' = promo]_vars

\* C7 witness: a complete of a multipart upload has just been answered with the
\* error, the record is failed and nothing is scheduled
StoreRejectionFailsCompleteWitness ==
  \E u \in DOMAIN rec :
     /\ reply = CompleteFailedReply(u)
     /\ rec[u].upload_type = "multipart" /\ rec[u].status = "failed"
     /\ mpu[u] = "open"
     /\ \A p \in Promos : promo[p].pc = "idle"

EntriesOf(parts, partNumber) ==
  {parts[i] : i \in {j \in 1..Len(parts) : parts[j].partNumber = partNumber}}

UniqueParts(parts) ==
  \A i, j \in 1..Len(parts) : parts[i].partNumber = parts[j].partNumber => i = j

\* C8: with the acknowledgements arriving one after the other, the parts of a
\* record hold at most one entry per partNumber, and an acknowledgement leaves
\* exactly one entry for its partNumber, with its etag and size, and the
\* entries of the other part numbers as they were.
AckReplacesPart ==
  [][/\ \A u \in DOMAIN rec : UniqueParts(rec'[u].parts)
     /\ \A c \in Calls :
          Finishes(c, "complete-part", "write") =>
            LET u == calls[c].u
                part == calls[c].part
            IN /\ EntriesOf(rec'[u].parts, part.partNumber) = {part}
               /\ \A q \in PartNumbers \ {part.partNumber} :
                     EntriesOf(rec'[u].parts, q) = EntriesOf(rec[u].parts, q)
               /\ Len(rec'[u].parts) =
                     IF EntriesOf(rec[u].parts, part.partNumber) = {}
                     THEN Len(rec[u].parts) + 1 ELSE Len(rec[u].parts)]_vars

\* C8 witness: part 1 has been reported again with another etag and size, and
\* the record holds the new entry for part 1 beside the entry of part 2
AckReplacesPartWitness ==
  \E u \in DOMAIN rec :
     /\ reply = AckReply(u, TRUE)
     /\ Len(rec[u].parts) = 2
     /\ EntriesOf(rec[u].parts, 1) = {[partNumber |-> 1, etag |-> "e2", size |-> 4]}
     /\ EntriesOf(rec[u].parts, 2) # {}

\* C9: with the acknowledgements of distinct part numbers running concurrently,
\* no acknowledged part is lost: a part in the record's parts stays in them.
NoAcknowledgementLost ==
  [][\A u \in DOMAIN rec, q \in PartNumbers :
       EntriesOf(rec[u].parts, q) # {} => EntriesOf(rec'[u].parts, q) # {}]_vars

\* C10: an acknowledgement arriving for a record that is completed, aborted or
\* failed is rejected at once, and the parts of a record that is not active
\* never change.
AckOnlyWhenActive ==
  [][\A u \in DOMAIN rec :
       rec[u].status # "active" =>
         /\ rec'[u].parts = rec[u].parts
         /\ \A c \in Calls, part \in Parts :
               AckStart(c, u, part) => calls' = calls /\ reply'.code \in {400, 404}]_vars

SingleRejectedReply(u) ==
  Reply("complete-part", u, 400, "Part completion only supported for multipart uploads")

\* C11: a single upload never has parts (an acknowledgement arriving for it is
\* rejected and changes neither a record nor a handler), and the progress
\* /status reports for it is 100% when its status is completed and 0% otherwise.
SingleProgressBinary ==
  [][\A u \in DOMAIN rec :
       rec[u].upload_type = "single" =>
         /\ rec[u].parts = <<>> /\ rec'[u].parts = <<>>
         /\ \A c \in Calls, part \in Parts :
               AckStart(c, u, part) =>
                  reply' = SingleRejectedReply(u) /\ UNCHANGED <<rec, calls>>
         /\ GetStatus(u) =>
               /\ reply'.code = 200
               /\ reply'.progress = IF rec[u].status = "completed" THEN 10000 ELSE 0
               /\ reply'.uploadedParts = <<>>]_vars

\* C11 witness: /status has just reported 100% for a completed single upload
SingleProgressBinaryWitness ==
  \E u \in DOMAIN rec :
     /\ rec[u].upload_type = "single" /\ rec[u].status = "completed"
     /\ reply = StatusReply(u, rec[u])
     /\ reply.progress = 10000

UrlNotActiveReply(u) == Reply("url", u, 400, "Upload is not active")

UrlPartRequiredReply(u) ==
  Reply("url", u, 400, "Part number required for multipart upload")

\* C12: /url goes on to presign only for a record that exists and is active
\* (with a partNumber when it is multipart), and a presigned URL is sent only
\* by a handler that went on; a request for a record that is not active is
\* answered "Upload is not active", one for a multipart record without a
\* partNumber is answered too, and a rejected request starts no presigning and
\* changes no record and nothing in the store.
UrlOnlyWhenActive ==
  [][/\ \A c \in Calls, u \in Uploads, partNumber \in PartNumberArgs :
          UrlStart(c, u, partNumber) =>
            /\ calls' # calls =>
                 /\ Exists(u) /\ rec[u].status = "active"
                 /\ rec[u].upload_type = "multipart" => partNumber # NoPartNumber
                 /\ calls'[c].op = "url" /\ calls'[c].pc = "sign"
            /\ Exists(u) /\ rec[u].status # "active" =>
                 reply' = UrlNotActiveReply(u) /\ calls' = calls
            /\ ( /\ Exists(u) /\ rec[u].status = "active"
                 /\ rec[u].upload_type = "multipart"
                 /\ partNumber = NoPartNumber ) =>
                 reply' = UrlPartRequiredReply(u) /\ calls' = calls
            /\ UNCHANGED <<rec, mpu, tempObj, finalObj, promo>>
     /\ \A c \in Calls :
          calls[c].op # "url" /\ calls'[c].op = "url" =>
             rec[calls'[c].u].status = "active"
     /\ reply'.op = "url" /\ reply'.code = 200 =>
          \E c \in Calls : Finishes(c, "url", "sign") /\ reply'.u = calls[c].u]_vars

\* C12 witness: /url has just been rejected for a record that is completed
UrlOnlyWhenActiveWitness ==
  \E u \in DOMAIN rec :
     /\ reply = UrlNotActiveReply(u)
     /\ rec[u].status = "completed"

\* C13: initiate makes the upload multipart when totalSize is at least 5 MiB
\* and single when it is less; it begins a multipart upload in the store for a
\* multipart upload (and creates no record when the store refuses), and for a
\* single upload it leaves the store alone.
KindByThreshold ==
  [][\A t \in InitiateSizes, ok \in BOOLEAN :
       Initiate(t, ok) =>
          LET u == Len(rec) + 1
          IN IF t >= 5242880
             THEN IF ok
                  THEN /\ rec'[u].upload_type = "multipart"
                       /\ mpu[u] = "none" /\ mpu'[u] = "open"
                  ELSE rec' = rec /\ mpu' = mpu /\ reply'.code = 500
             ELSE /\ rec'[u].upload_type = "single"
                  /\ mpu' = mpu /\ reply'.code = 200]_vars

\* C13 witness: an upload of exactly 5 MiB has just been initiated, as a
\* multipart upload the store has open
KindByThresholdWitness ==
  \E u \in DOMAIN rec :
     /\ reply = Reply("initiate", u, 200, "")
     /\ rec[u].total_size = 5242880
     /\ rec[u].upload_type = "multipart" /\ mpu[u] = "open"

\* C14: the record a successful initiate creates has status active,
\* processing_status pending, processing_progress 0, no parts, and no
\* final_s3_key, final_bucket or completed_at; an initiate that fails creates
\* no record.
FreshRecord ==
  [][\A t \in InitiateSizes, ok \in BOOLEAN :
       Initiate(t, ok) =>
          LET u == Len(rec) + 1
          IN IF reply'.code = 200
             THEN /\ DOMAIN rec' = DOMAIN rec \cup {u}
                  /\ \A v \in DOMAIN rec : rec'[v] = rec[v]
                  /\ rec'[u].total_size = t
                  /\ rec'[u].status = "active"
                  /\ rec'[u].processing_status = "pending"
                  /\ rec'[u].processing_progress = 0
                  /\ rec'[u].parts = <<>>
                  /\ rec'[u].final_s3_key = NoKey
                  /\ rec'[u].final_bucket = "null"
                  /\ rec'[u].completed_at = NoTime
             ELSE rec' = rec]_vars

\* C14 witness: a single upload has just been initiated and its record is fresh
FreshRecordWitness ==
  \E u \in DOMAIN rec :
     /\ reply = Reply("initiate", u, 200, "")
     /\ rec[u].upload_type = "single"
     /\ rec[u].status = "active" /\ rec[u].processing_status = "pending"
     /\ rec[u].parts = <<>> /\ rec[u].final_s3_key = NoKey

\* C15: for every row, the status facade reports ready_for_display true exactly
\* when status is completed, processing_status is processed or null, and
\* final_s3_key is set; it reports false whenever final_s3_key is not set.
ReadyIffPromoted ==
  [][\A u \in DOMAIN rec :
       GetUploadStatus(u) =>
          /\ reply'.ready_for_display =
                ( /\ rec[u].status = "completed"
                  /\ rec[u].processing_status \in {"processed", "null"}
                  /\ rec[u].final_s3_key # NoKey )
          /\ rec[u].final_s3_key = NoKey => reply'.ready_for_display = FALSE]_vars

\* C15 witness: the facade has just reported not ready for a row that is
\* completed and processed and has no final_s3_key
ReadyIffPromotedWitness ==
  \E u \in DOMAIN rec :
     /\ rec[u].status = "completed" /\ rec[u].processing_status = "processed"
     /\ rec[u].final_s3_key = NoKey
     /\ reply = UploadStatus(u, rec[u])
     /\ reply.ready_for_display = FALSE

\* C16: in a run without failures, once the complete of an upload whose object
\* is in the temp bucket has been answered with success, the status facade
\* eventually reports the upload completed and ready for display.
ReadyEventually ==
  \A u \in Uploads :
     (reply = Reply("complete", u, 200, "") /\ tempObj[u])
        ~> ( /\ reply.op = "upload-status" /\ reply.code = 200 /\ reply.u = u
             /\ reply.upload_status = "completed"
             /\ reply.ready_for_display )

\* C17: a complete with no parts of an active single upload goes straight to
\* marking the record (the handler never waits for the store, and the store
\* holds no multipart upload for it), and when it answers, with success, the
\* record's status is completed.
SingleCompleteSkipsStore ==
  [][\A c \in Calls, u \in DOMAIN rec :
       rec[u].upload_type = "single" =>
         /\ mpu[u] = "none" /\ mpu'[u] = "none"
         /\ CompleteStart(c, u, <<>>) /\ rec[u].status = "active" =>
               calls'[c].op = "complete" /\ calls'[c].pc = "mark"
         /\ calls[c].op = "complete" /\ calls[c].u = u =>
               /\ calls[c].pc = "mark"
               /\ \/ calls'[c] = calls[c]
                  \/ /\ calls'[c].pc = "idle"
                     /\ reply' = Reply("complete", u, 200, "")
                     /\ rec'[u].status = "completed"]_vars

\* C17 witness: the complete of a single upload has just been answered with
\* success and the record is completed
SingleCompleteSkipsStoreWitness ==
  \E u \in DOMAIN rec :
     /\ reply = Reply("complete", u, 200, "")
     /\ rec[u].upload_type = "single" /\ rec[u].status = "completed"
     /\ rec[u].parts = <<>> /\ mpu[u] = "none"

PromoErrors == {"copyObject", "markUploadCompleted", "deleteObject"}

\* C19: when the copy, the persisting of the final location or the delete of
\* the temp object throws, the promotion goes through the cleanup of the final
\* object and of the temp object before it marks the record failed; whether or
\* not the cleanup deletes succeed it goes on, and it ends with the record
\* failed and with the error first thrown in its result.
FailedPromotionCleansUp ==
  [][\A p \in Promos :
       promo'[p] # promo[p] =>
         LET u == promo[p].u
         IN /\ promo'[p].pc = "cleanupFinal" =>
                 /\ promo[p].pc \in {"copy", "persist", "delete"}
                 /\ promo'[p].err \in PromoErrors
                 /\ rec' = rec
            /\ promo'[p].pc = "cleanupTemp" => promo[p].pc = "cleanupFinal"
            /\ promo'[p].pc = "markFailed" => promo[p].pc = "cleanupTemp"
            /\ promo[p].pc \in {"cleanupFinal", "cleanupTemp"} =>
                 /\ promo'[p].pc = IF promo[p].pc = "cleanupFinal"
                                   THEN "cleanupTemp" ELSE "markFailed"
                 /\ promo'[p].err = promo[p].err
                 /\ rec' = rec
            /\ promo[p].pc = "markFailed" =>
                 /\ promo'[p].pc = "idle"
                 /\ promo[p].err \in PromoErrors
                 /\ rec'[u].status = "failed"
                 /\ reply' = ProcessingResult(u, FALSE, promo[p].err)]_vars

\* C19 witness: the delete of the temp object threw, both cleanup deletes
\* failed too, and the promotion has just ended with the record failed and
\* the first error in its result
FailedPromotionCleansUpWitness ==
  \E u \in DOMAIN rec :
     /\ reply = ProcessingResult(u, FALSE, "deleteObject")
     /\ rec[u].status = "failed" /\ rec[u].final_s3_key # NoKey
     /\ finalObj[u] /\ tempObj[u]

ClientOps == {"initiate", "url", "complete-part", "complete", "abort", "status",
              "upload-status"}

PromotionErrorInProcessingStatus ==
  [][\A p \in Promos :
       promo[p].pc = "markFailed" /\ promo'[p].pc = "idle" =>
          LET u == promo[p].u
          IN /\ rec'[u] = [rec[u] EXCEPT !.processing_status = rec'[u].processing_status]
             /\ rec'[u].processing_status = "failed"]_vars

Promoted(u) == rec[u].final_s3_key # NoKey /\ rec[u].final_bucket # "null"

\* C22: under fair scheduling, once the complete of an upload has been answered
\* with success the upload eventually is promoted (final_s3_key and
\* final_bucket set) or its record is failed.
PromotionTerminates ==
  \A u \in Uploads :
     (reply = Reply("complete", u, 200, ""))
        ~> (Exists(u) /\ (rec[u].status = "failed" \/ Promoted(u)))

\* C23: processing_progress stays within 0..100: updateProcessingStatus stores
\* the progress it is given cut to 0..100, and leaves the column as it is when
\* it is given none.
ProgressClamped ==
  [][\A u \in DOMAIN rec :
       /\ rec'[u].processing_progress \in 0..100
       /\ \A ps \in ProcessingStatuses, progress \in ProgressArgs :
            UpdateProcessingStatus(u, ps, progress) =>
               rec'[u].processing_progress =
                  IF progress = <<>> THEN rec[u].processing_progress
                  ELSE IF progress[1] < 0 THEN 0
                  ELSE IF progress[1] > 100 THEN 100
                  ELSE progress[1]]_vars

\* C23 witness: updateProcessingStatus has just been given 250 and the row holds 100
ProgressClampedWitness ==
  \E u \in DOMAIN rec :
     /\ reply = UpdatedReply(u, "processing", <<250>>)
     /\ rec[u].processing_progress = 100

\* what a request about an upload answers when the uploads table has no row
\* with the upload_id
NotFound(op, u) == Reply(op, u, 404, "Upload not found")

\* user B asks for an operation on an upload whose row belongs to another user
Foreign(userId, u) == Exists(u) /\ rec[u].user_id # userId

\* C24: every lifecycle operation (URL, acknowledge part, complete, abort,
\* status, bulk status, list active) asked by a user about an upload whose
\* record belongs to another user answers as if there were no such record
\* (not found, or the upload left out of the answer), starts no handler, and
\* leaves the records and the objects of the store unchanged.
OwnerIsolation ==
  [][\A userId \in Users, u \in OwnerUploads :
        Foreign(userId, u) =>
           LET Untouched == UNCHANGED <<rec, store, calls, promo>>
               \* a request answers at once under its own name or starts a handler
               Asked(op) == reply'.op \in {op, "none"}
           IN /\ (Asked("url") /\ \E c \in Calls, partNumber \in OwnerPartNumberArgs :
                                     UrlStartBy(userId, c, u, partNumber))
                    => reply' = NotFound("url", u) /\ Untouched
              /\ (Asked("complete-part") /\ \E c \in Calls :
                                               AckStartBy(userId, c, u, OwnerPart))
                    => reply' = NotFound("complete-part", u) /\ Untouched
              /\ (Asked("complete") /\ \E c \in Calls, parts \in PartLists :
                                          CompleteStartBy(userId, c, u, parts))
                    => reply' = NotFound("complete", u) /\ Untouched
              /\ (Asked("abort") /\ \E c \in Calls : AbortStartBy(userId, c, u))
                    => reply' = NotFound("abort", u) /\ Untouched
              /\ (Asked("status") /\ GetStatusBy(userId, u))
                    => reply' = NotFound("status", u) /\ Untouched
              /\ (Asked("upload-status") /\ GetUploadStatusBy(userId, u))
                    => reply' = NotFound("upload-status", u) /\ Untouched
              /\ \A ids \in BulkArgs :
                    (Asked("bulk-status") /\ GetBulkStatusBy(userId, ids))
                       => reply'.code = 200 /\ u \notin DOMAIN reply'.entries
                          /\ Untouched
              /\ (Asked("active") /\ ListActiveBy(userId))
                    => (\A e \in reply'.uploads : e.uploadId # u) /\ Untouched]_vars

\* Bob's abort of Alice's active upload has been answered "not found", and
\* Bob has an upload of his own
OwnerIsolationWitness ==
  /\ \E u \in DOMAIN rec :
        /\ rec[u].user_id = Alice /\ rec[u].status = "active"
        /\ reply = NotFound("abort", u)
  /\ \E v \in DOMAIN rec : rec[v].user_id = "bob"

\* C25: cleanupStaleUploads(maxAge) changes to failed exactly the records that
\* are active and were created more than maxAge ago, returns the number of
\* the records it changed, and leaves every other record, and everything in
\* the store, unchanged.
CleanupExact ==
  [][\A olderThan \in Times :
        CleanupStaleUploadsCall(olderThan) =>
           /\ DOMAIN rec' = DOMAIN rec
           /\ \A u \in DOMAIN rec :
                 rec'[u] = IF rec[u].status = "active" /\ now - rec[u].created_at > olderThan
                           THEN [rec[u] EXCEPT !.status = "failed"]
                           ELSE rec[u]
           /\ reply'.count = Cardinality({u \in DOMAIN rec : rec'[u] # rec[u]})
           /\ UNCHANGED <<store, calls, promo>>]_vars

\* a call has failed one of two active uploads, the older one, and left the
\* one that is exactly as old as the age it was given
CleanupExactWitness ==
  /\ reply = CleanupReply(1)
  /\ Len(rec) = 2
  /\ rec[1].status = "failed" /\ rec[1].created_at = 0
  /\ rec[2].status = "active" /\ rec[2].created_at = 1
  /\ now = 1

\* C26: the bulk status answers with one entry for exactly those requested
\* uploadIds that have a record of the caller, each entry what the status of
\* that upload alone answers; an id with no record, or with a record of
\* somebody else, is left out and does not fail the batch.
BulkStatusExact ==
  [][\A userId \in Users, ids \in BulkArgs :
        (reply'.op = "bulk-status" /\ GetBulkStatusBy(userId, ids)) =>
           /\ reply'.code = 200
           /\ DOMAIN reply'.entries =
                 {u \in Range(ids) : Exists(u) /\ rec[u].user_id = userId}
           /\ \A u \in DOMAIN reply'.entries :
                 /\ reply'.entries[u].code = 200
                 /\ reply'.entries[u].upload_status = rec[u].status
                 /\ reply'.entries[u].processing_status = rec[u].processing_status
                 /\ reply'.entries[u].processing_progress = rec[u].processing_progress
                 /\ reply'.entries[u].ready_for_display = ReadyForDisplay(rec[u])
                 /\ reply'.entries[u] = UploadStatus(u, rec[u])]_vars

\* a batch that named Alice's completed upload, Bob's upload and an id nobody
\* has was answered with the one entry of Alice's upload
BulkStatusExactWitness ==
  /\ reply.op = "bulk-status" /\ reply.code = 200
  /\ Len(rec) = 2 /\ rec[1].user_id = Alice /\ rec[2].user_id = "bob"
  /\ DOMAIN reply.entries = {1}
  /\ reply.entries[1].upload_status = "completed"

\* C27: an initiate request whose totalSize is below 1 or above 5 GiB, or
\* whose contentType does not start with image/ or video/, is answered with a
\* validation error (400), without any call of the object store and without
\* a record being created.
InvalidInitiateRejected ==
  [][\A contentType \in ContentTypeArgs, totalSize \in SizeArgs, ok \in BOOLEAN :
        (/\ reply'.op = "initiate"
         /\ \/ ~WideLeq(Wide(0, 1), totalSize)
            \/ ~WideLeq(totalSize, Wide(5, 0))
            \/ ~MatchesPattern(contentType)
         /\ InitiateRequest(Alice, contentType, totalSize, ok))
           => /\ reply' = Reply("initiate", 0, 400, "Bad Request")
              /\ UNCHANGED <<rec, store, calls, promo>>]_vars

\* a request has been answered 400 while an earlier, valid one has its record
InvalidInitiateRejectedWitness ==
  /\ reply = Reply("initiate", 0, 400, "Bad Request")
  /\ Len(rec) = 1

\* C28: the promotion of an upload does not wait for the promotion of another:
\* with the promotion of upload 1 free to stall for ever at any step, a
\* promotion of upload 2, scheduled before or after that of upload 1, runs to
\* its end under fair scheduling.
PromotionIsolated ==
  \A p \in IsolatedPromos :
     (promo[p].pc # "idle" /\ promo[p].u = 2) ~> (promo[p].pc = "idle")

\* the promotion of upload 2 has ended with success while that of upload 1,
\* scheduled earlier, is still waiting for its copy
PromotionIsolatedWitness ==
  /\ reply = ProcessingResult(2, TRUE, "")
  /\ promo[1].u = 1 /\ promo[1].pc = "copy"
  /\ promo[2].pc = "idle"

\* C29: when the promotion of a completed upload succeeds, the object is in
\* the final bucket under the key it had in the temp bucket, the record has
\* final_s3_key = s3_key and final_bucket = the final bucket, and the object
\* of the temp bucket is deleted; the final location is persisted before the
\* temp object is deleted, and the copy is made before the final location is
\* persisted.
PromotionSuccessState ==
  [][\A p \in DOMAIN promo :
        LET u == promo[p].u
        IN /\ (promo'[p].pc = "persist" /\ promo[p].pc # "persist")
                => promo[p].pc = "copy" /\ finalObj'[u]
           /\ (promo'[p].pc = "delete" /\ promo[p].pc # "delete")
                => /\ promo[p].pc = "persist"
                   /\ rec'[u].final_s3_key = S3Key(u) /\ rec'[u].final_bucket = "final"
           /\ (promo[p].pc = "delete" /\ promo'[p].pc = "idle")
                => /\ reply' = ProcessingResult(u, TRUE, "")
                   /\ finalObj'[u]
                   /\ rec'[u].final_s3_key = S3Key(u) /\ rec'[u].final_bucket = "final"
                   /\ ~tempObj'[u]]_vars

\* the changes of processing_status the lifecycle admits
ProcessingOrder ==
  {<<"pending", "processing">>, <<"processing", "processed">>,
   <<"processing", "failed">>}

\* C30: processing_status changes only while status = completed and only
\* along pending -> processing -> {processed, failed}; a promotion that
\* succeeds leaves processing_status = processed, and one that fails leaves
\* processing_status = failed.
ProcessingStatusLifecycle ==
  [][/\ \A u \in DOMAIN rec :
          rec'[u].processing_status # rec[u].processing_status
             => /\ rec[u].status = "completed"
                /\ <<rec[u].processing_status, rec'[u].processing_status>>
                      \in ProcessingOrder
     /\ \A p \in DOMAIN promo :
          LET u == promo[p].u
          IN /\ (promo[p].pc = "delete" /\ promo'[p].pc = "idle")
                  => rec'[u].processing_status = "processed"
             /\ (promo[p].pc = "markFailed" /\ promo'[p].pc = "idle")
                  => rec'[u].processing_status = "failed"]_vars

\* C31: a multipart initiate answers totalChunks = ceil(totalSize / chunkSize)
\* and that chunkSize, where chunkSize is the caller's value or 10 MiB when
\* left out; a single initiate answers totalChunks = 1 and chunkSize =
\* totalSize.
InitiateChunks ==
  [][\A t \in ChunkTotalSizes, chunkArg \in ChunkArgs :
        (reply'.op = "initiate" /\ reply'.code = 200
         /\ InitiateWith(Alice, t, chunkArg, TRUE, TRUE))
           => LET c == IF chunkArg = <<>> THEN 10485760 ELSE chunkArg[1]
                  n == reply'.totalChunks
              IN IF t >= MULTIPART_THRESHOLD
                 THEN /\ reply'.uploadType = "multipart"
                      /\ reply'.chunkSize = c
                      /\ (n - 1) * c < t /\ t <= n * c
                 ELSE /\ reply'.uploadType = "single"
                      /\ reply'.chunkSize = t /\ n = 1]_vars

\* a multipart initiate of 10 MiB + 1 with no chunkSize has answered two
\* chunks of 10 MiB
InitiateChunksWitness ==
  /\ reply.op = "initiate" /\ reply.code = 200
  /\ rec[reply.u].total_size = 10485761
  /\ reply.chunkSize = 10485760 /\ reply.totalChunks = 2

\* C33: whenever the store has begun a multipart upload for an initiate, a
\* record of it exists, or the store-side upload has been aborted: an
\* initiate whose record creation fails leaves no multipart upload dangling.
NoDanglingMultipart ==
  \A u \in DOMAIN mpu : mpu[u] = "open" => Exists(u)

\* how many times a part is in a list
Count(part, parts) == Cardinality({i \in DOMAIN parts : parts[i] = part})

\* C32: the part list submitted to the store's completeMultipartUpload is a
\* permutation of the supplied (partNumber, etag) pairs, sorted ascending by
\* partNumber.
SubmittedSorted ==
  reply.op = "completeMultipartUpload" =>
     /\ Len(reply.submitted) = Len(reply.supplied)
     /\ \A part \in PartPairs :
           Count(part, reply.submitted) = Count(part, reply.supplied)
     /\ \A i, j \in DOMAIN reply.submitted :
           i < j => reply.submitted[i].PartNumber <= reply.submitted[j].PartNumber

\* parts 3, 1, 2 were supplied and 1, 2, 3 submitted
SubmittedSortedWitness ==
  /\ reply.op = "completeMultipartUpload"
  /\ Len(reply.supplied) = 3
  /\ reply.supplied[1].PartNumber = 3 /\ reply.supplied[2].PartNumber = 1
  /\ reply.supplied[3].PartNumber = 2
  /\ reply.submitted[1].PartNumber = 1 /\ reply.submitted[3].PartNumber = 3

PromotionOnce ==
  [][\A p \in DOMAIN promo :
        (promo[p].pc = "idle" /\ promo'[p].pc = "scheduled")
           => LET u == promo'[p].u
              IN /\ rec[u].completed_at = NoTime
                 /\ \A q \in DOMAIN promo \ {p} :
                       promo[q].pc = "idle" \/ promo[q].u # u]_vars

\* C36.  In every reachable state a record with status completed and a final
\* key set has its object in the final bucket under that key: the record never
\* names a final location that cleanup has emptied.
FinalLocationHeld ==
  \A u \in DOMAIN rec :
     (Exists(u) /\ rec[u].status = "completed" /\ rec[u].final_s3_key # NoKey)
        => finalObj[u]

\* C37.  completed_at is written once, by the complete that takes the record
\* from active to completed: once a record has a completed_at, no step of
\* promotion or of any other operation changes it.
CompletedAtOnce ==
  [][\A u \in DOMAIN rec :
        rec[u].completed_at # NoTime
           => rec'[u].completed_at = rec[u].completed_at]_vars

\* C38.  A complete of an active multipart upload with a missing or empty part
\* list is answered 400 in the step that reads the record: that step changes
\* neither the record, nor the object store, nor the scheduled promotions, and
\* leaves no handler in flight, so the store is never called, the record is
\* never marked failed and stays active, and no promotion is scheduled.
EmptyPartsRejected ==
  [][\A c \in Calls, u \in DOMAIN rec :
        ( /\ reply'.op \in {"complete", "none"}
          /\ rec[u].upload_type = "multipart" /\ rec[u].status = "active"
          /\ CompleteStart(c, u, <<>>) )
           => /\ reply' = Reply("complete", u, 400, "Parts required for multipart upload")
              /\ rec' = rec /\ rec'[u].status = "active"
              /\ store' = store
              /\ promo' = promo
              /\ calls' = calls]_vars

\* C38 witness: the complete of a multipart upload has just been refused for
\* its missing parts; the record is active, the multipart upload is still open
\* in the store, and no handler or promotion is under way
EmptyPartsRejectedWitness ==
  \E u \in DOMAIN rec :
     /\ reply = Reply("complete", u, 400, "Parts required for multipart upload")
     /\ rec[u].upload_type = "multipart" /\ rec[u].status = "active"
     /\ mpu[u] = "open"
     /\ \A c \in Calls : calls[c].pc = "idle"
     /\ \A p \in DOMAIN promo : promo[p].pc = "idle"

\* ------------------------------------------- the sizes a client reports
\* the size of an acknowledgement: CompletePartSchema asks for a number that
\* is at least 1 and sets no upper limit, and the route does not compare it
\* with the record's total_size
AckSizes == {1, 5 * MiB, 10000000, 10000001}

\* the acknowledgements of the two parts with these sizes
SizedParts ==
  {[partNumber |-> n, etag |-> "e1", size |-> s] : n \in PartNumbers, s \in AckSizes}

\* one request at a time: initiate, acknowledge parts, ask for the status
NextSizes ==
  \/ \E t \in TotalSizes : Quiet /\ Initiate(t, TRUE)
  \/ \E c \in Calls, u \in Uploads, part \in SizedParts :
        Quiet /\ AckStart(c, u, part)
  \/ \E c \in Calls : AckRead(c) \/ AckWrite(c)
  \/ \E u \in Uploads : Quiet /\ GetStatus(u)

SpecSizes == Init /\ [][NextSizes]_vars

\* C39.  The uploadedSize the status operation reports for a record is at most
\* its totalSize, and the progress it reports is at most 100%.
UploadedWithinTotal ==
  (reply.op = "status" /\ reply.code = 200)
     => /\ reply.uploadedSize <= reply.totalSize
        /\ reply.progress <= 10000
====
